---- MODULE Spec2Model ----
(***************************************************************************)
(* Model of the FileMesh codec of roblox_utils_cli: the version-dispatching *)
(* decoder (filemesh.rs), the binary encoder (ser.rs), the OBJ exporter     *)
(* (filemesh.rs) and the OBJ importer (importer.rs).                        *)
(*                                                                         *)
(* Conventions of the model                                                *)
(*  - a byte buffer is a sequence of integers 0..255;                       *)
(*  - an f32 is modelled as a fixed-point number, an integer counting       *)
(*    units of 10^-7; its 4-byte pattern is sign and magnitude, the sign in *)
(*    the top bit of the last byte as in IEEE 754 (the target is            *)
(*    little-endian, the only byte order on which as_bytes and the          *)
(*    LittleEndian reads agree); NaN and the infinities are not modelled;   *)
(*  - a Result is a record with a "kind" field: "mesh", "bytes", "obj" for  *)
(*    Ok values, "err" for a ConversionError, "panic" for an abort;         *)
(*  - an integer overflow aborts in a build with overflow checks and wraps  *)
(*    in a build without: an operator that meets one returns both outcomes  *)
(*    (kind "overflow") and the operation takes either.                     *)
(***************************************************************************)
EXTENDS Integers, Sequences, FiniteSets, TLC

VARIABLES input, cur, hist
vars == <<input, cur, hist>>

(***************************************************************************)
(* Values                                                                  *)
(***************************************************************************)
BytesV(b) == [kind |-> "bytes", bytes |-> b]
MeshV(vs, fs) == [kind |-> "mesh", vertices |-> vs, faces |-> fs]
ObjV(ls) == [kind |-> "obj", lines |-> ls]
Err(e) == [kind |-> "err", err |-> e]
Panic == [kind |-> "panic"]
\* An arithmetic overflow: a panic with overflow checks, else the result the
\* wrapped value leads to.
Overflow(wrapped) == [kind |-> "overflow", wrapped |-> wrapped]
Outcomes(r) == IF r.kind = "overflow" THEN {Panic, r.wrapped} ELSE {r}

parse_err == Err("RobloxMeshParse")
Unsupported == Err("Unsupported")
IoErr == Err("Io")
NoMeshData == Err("NoMeshData")
ObjParse == Err("ObjParse")

Min(a, b) == IF a <= b THEN a ELSE b

SubSeqFrom(s, from) == SubSeq(s, from, Len(s))

RECURSIVE Flatten(_)
Flatten(ss) == IF ss = <<>> THEN <<>> ELSE Head(ss) \o Flatten(Tail(ss))

RECURSIVE SumSeq(_)
SumSeq(s) == IF s = <<>> THEN 0 ELSE Head(s) + SumSeq(Tail(s))

Range(s) == {s[i] : i \in DOMAIN s}

(***************************************************************************)
(* UTF-8 decoding (std::str::from_utf8) and str::trim                      *)
(***************************************************************************)
IsCont(b) == b >= 128 /\ b <= 191

\* Length of the UTF-8 sequence starting at bs[i], 0 when it is ill-formed.
Utf8SeqLen(bs, i) ==
  LET b == bs[i]
      n == Len(bs)
      c(k) == i + k <= n /\ IsCont(bs[i + k])
  IN  IF b < 128 THEN 1
      ELSE IF b >= 194 /\ b <= 223 THEN (IF c(1) THEN 2 ELSE 0)
      ELSE IF b = 224 THEN (IF c(1) /\ bs[i + 1] >= 160 /\ c(2) THEN 3 ELSE 0)
      ELSE IF b = 237 THEN (IF c(1) /\ bs[i + 1] <= 159 /\ c(2) THEN 3 ELSE 0)
      ELSE IF b >= 225 /\ b <= 239 THEN (IF c(1) /\ c(2) THEN 3 ELSE 0)
      ELSE IF b = 240 THEN (IF c(1) /\ bs[i + 1] >= 144 /\ c(2) /\ c(3) THEN 4 ELSE 0)
      ELSE IF b >= 241 /\ b <= 243 THEN (IF c(1) /\ c(2) /\ c(3) THEN 4 ELSE 0)
      ELSE IF b = 244 THEN (IF c(1) /\ bs[i + 1] <= 143 /\ c(2) /\ c(3) THEN 4 ELSE 0)
      ELSE 0

CodePoint(bs, i, len) ==
  IF len = 1 THEN bs[i]
  ELSE IF len = 2 THEN (bs[i] - 192) * 64 + (bs[i + 1] - 128)
  ELSE IF len = 3 THEN (bs[i] - 224) * 4096 + (bs[i + 1] - 128) * 64 + (bs[i + 2] - 128)
  ELSE (bs[i] - 240) * 262144 + (bs[i + 1] - 128) * 4096
       + (bs[i + 2] - 128) * 64 + (bs[i + 3] - 128)

\* from_utf8: the sequence of code points, or a failure.
RECURSIVE from_utf8_at(_, _, _)
from_utf8_at(bs, i, acc) ==
  IF i > Len(bs) THEN [ok |-> TRUE, chars |-> acc]
  ELSE LET len == Utf8SeqLen(bs, i)
       IN  IF len = 0 THEN [ok |-> FALSE, chars |-> <<>>]
           ELSE from_utf8_at(bs, i + len, Append(acc, CodePoint(bs, i, len)))

\* The bytes before the first one above 127 are their own code points.
from_utf8(bs) ==
  LET high == {i \in DOMAIN bs : bs[i] >= 128}
  IN  IF high = {} THEN [ok |-> TRUE, chars |-> bs]
      ELSE LET first == CHOOSE i \in high : \A j \in high : i <= j
           IN  from_utf8_at(bs, first, SubSeq(bs, 1, first - 1))

\* char::is_whitespace: the Unicode White_Space property.
is_whitespace(c) ==
  \/ c >= 9 /\ c <= 13
  \/ c \in {32, 133, 160, 5760, 8232, 8233, 8239, 8287, 12288}
  \/ c >= 8192 /\ c <= 8202

RECURSIVE trim_start(_)
trim_start(cs) ==
  IF cs # <<>> /\ is_whitespace(Head(cs)) THEN trim_start(Tail(cs)) ELSE cs

RECURSIVE trim_end(_)
trim_end(cs) ==
  IF cs # <<>> /\ is_whitespace(cs[Len(cs)])
  THEN trim_end(SubSeq(cs, 1, Len(cs) - 1)) ELSE cs

trim(cs) == trim_end(trim_start(cs))

(***************************************************************************)
(* Record sizes (mesh_types.rs, #[repr(C, packed)]: no padding)            *)
(***************************************************************************)
FILEMESH_VERTEX_SIZE_WITH_RGBA == 8 * 4 + 4 * 1 + 4 * 1
SizeofFileMeshFace == 3 * 4
SizeofFileMeshHeaderV2 == 2 + 1 + 1 + 4 + 4
SizeofFileMeshHeaderV3 == 2 + 1 + 1 + 2 + 2 + 4 + 4
SizeofFileMeshHeaderV4 == 2 + 2 + 4 + 4 + 2 + 2 + 4 + 2 + 1 + 1
SizeofFileMeshHeaderV5 == 2 + 2 + 4 + 4 + 2 + 2 + 4 + 2 + 1 + 1 + 4 + 4

\* The f32 literal 1.0 in fixed-point units of 10^-7.
One == 10000000

(***************************************************************************)
(* Little-endian reads on a Cursor (byteorder::ReadBytesExt); pos is the   *)
(* 0-based cursor position. A read of n bytes fails with UnexpectedEof,    *)
(* converted to ConversionError::Io by `?`, when fewer than n bytes remain. *)
(* u32 values are kept below 2^31 by the inputs (TLC integers are 32-bit).  *)
(***************************************************************************)
CanRead(b, pos, n) == pos + n <= Len(b)
U8(b, pos) == b[pos + 1]
U16(b, pos) == b[pos + 1] + 256 * b[pos + 2]
U32(b, pos) == b[pos + 1] + 256 * b[pos + 2] + 65536 * b[pos + 3] + 16777216 * b[pos + 4]
\* Sign bit in the top bit of the last byte, as in IEEE 754.
F32(b, pos) ==
  LET mag == b[pos + 1] + 256 * b[pos + 2] + 65536 * b[pos + 3]
             + 16777216 * (b[pos + 4] % 128)
  IN  IF b[pos + 4] >= 128 THEN 0 - mag ELSE mag

IntermediateVertex(p, n, t) == [pos |-> p, normal |-> n, uv |-> t]

\* The texture V flip applied by every reader.
FlipVNone(v) == v
FlipV(v) == One - v

\* One vertex record at pos, its cursor already known to hold the bytes.
ReadVertexRecord(b, pos) ==
  IntermediateVertex(
    <<F32(b, pos), F32(b, pos + 4), F32(b, pos + 8)>>,
    <<F32(b, pos + 12), F32(b, pos + 16), F32(b, pos + 20)>>,
    <<F32(b, pos + 24), FlipV(F32(b, pos + 28))>>)

RECURSIVE read_vertices_loop(_, _, _, _, _)
read_vertices_loop(b, pos, count, has_rgba, acc) ==
  IF count = 0 THEN [ok |-> TRUE, val |-> acc, pos |-> pos]
  ELSE IF ~CanRead(b, pos, 8 * 4 + 4) THEN [ok |-> FALSE, val |-> <<>>, pos |-> pos]
  ELSE IF has_rgba /\ ~CanRead(b, pos + 36, 4) THEN [ok |-> FALSE, val |-> <<>>, pos |-> pos]
  ELSE read_vertices_loop(b, pos + 36 + (IF has_rgba THEN 4 ELSE 0), count - 1, has_rgba,
                          Append(acc, ReadVertexRecord(b, pos)))

read_vertices(b, pos, count, has_rgba) == read_vertices_loop(b, pos, count, has_rgba, <<>>)

RECURSIVE read_faces_loop(_, _, _, _)
read_faces_loop(b, pos, count, acc) ==
  IF count = 0 THEN [ok |-> TRUE, val |-> acc, pos |-> pos]
  ELSE IF ~CanRead(b, pos, 12) THEN [ok |-> FALSE, val |-> <<>>, pos |-> pos]
  ELSE read_faces_loop(b, pos + 12, count - 1,
                       Append(acc, <<U32(b, pos), U32(b, pos + 4), U32(b, pos + 8)>>))

read_faces(b, pos, count) == read_faces_loop(b, pos, count, <<>>)

RECURSIVE read_lod_offsets_loop(_, _, _, _)
read_lod_offsets_loop(b, pos, count, acc) ==
  IF count = 0 THEN [ok |-> TRUE, val |-> acc, pos |-> pos]
  ELSE IF ~CanRead(b, pos, 4) THEN [ok |-> FALSE, val |-> <<>>, pos |-> pos]
  ELSE read_lod_offsets_loop(b, pos + 4, count - 1, Append(acc, U32(b, pos)))

read_lod_offsets(b, pos, count) == read_lod_offsets_loop(b, pos, count, <<>>)

\* lod_offsets.get(1).unwrap_or(num_faces), min with num_faces, Vec::truncate.
LodTruncateFirstOffset(faces, lod_offsets, num_faces) ==
  LET base0 == IF Len(lod_offsets) >= 1 THEN lod_offsets[1] ELSE num_faces
      base == Min(base0, num_faces)
  IN  SubSeq(faces, 1, Min(base, Len(faces)))
LodTruncate(faces, lod_offsets, num_faces) ==
  LET base0 == IF Len(lod_offsets) >= 2 THEN lod_offsets[2] ELSE num_faces
      base == Min(base0, num_faces)
  IN  SubSeq(faces, 1, Min(base, Len(faces)))

\* read_vertices, read_faces, the LOD offsets and the truncation: the common
\* tail of parse_v3, parse_v4 and parse_v5.
ReadBodyWithLods(b, pos, num_verts, num_faces, num_lod_offsets, has_rgba) ==
  LET vs == read_vertices(b, pos, num_verts, has_rgba) IN
  IF ~vs.ok THEN IoErr ELSE
  LET fs == read_faces(b, vs.pos, num_faces) IN
  IF ~fs.ok THEN IoErr ELSE
  LET ls == read_lod_offsets(b, fs.pos, num_lod_offsets) IN
  IF ~ls.ok THEN IoErr ELSE
  MeshV(vs.val, LodTruncate(fs.val, ls.val, num_faces))

V2HasRgba(sizeof_vertex) == sizeof_vertex = FILEMESH_VERTEX_SIZE_WITH_RGBA

parse_v2NoFaceCheck(b) ==
  IF ~CanRead(b, 0, 2) THEN IoErr ELSE
  IF U16(b, 0) # SizeofFileMeshHeaderV2 THEN parse_err ELSE
  IF ~CanRead(b, 2, 2) THEN IoErr ELSE
  IF ~CanRead(b, 4, 8) THEN IoErr ELSE
  LET num_verts == U32(b, 4)
      num_faces == U32(b, 8)
      has_rgba == V2HasRgba(U8(b, 2))
      vs == read_vertices(b, 12, num_verts, has_rgba)
  IN  IF ~vs.ok THEN IoErr ELSE
      LET fs == read_faces(b, vs.pos, num_faces)
      IN  IF ~fs.ok THEN IoErr ELSE MeshV(vs.val, fs.val)

parse_v2(b) ==
  IF ~CanRead(b, 0, 2) THEN IoErr ELSE
  IF U16(b, 0) # SizeofFileMeshHeaderV2 THEN parse_err ELSE
  IF ~CanRead(b, 2, 2) THEN IoErr ELSE
  IF U8(b, 3) # SizeofFileMeshFace THEN parse_err ELSE
  IF ~CanRead(b, 4, 8) THEN IoErr ELSE
  LET num_verts == U32(b, 4)
      num_faces == U32(b, 8)
      has_rgba == V2HasRgba(U8(b, 2))
      vs == read_vertices(b, 12, num_verts, has_rgba)
  IN  IF ~vs.ok THEN IoErr ELSE
      LET fs == read_faces(b, vs.pos, num_faces)
      IN  IF ~fs.ok THEN IoErr ELSE MeshV(vs.val, fs.val)

parse_v3(b) ==
  IF ~CanRead(b, 0, 2) THEN IoErr ELSE
  IF U16(b, 0) # SizeofFileMeshHeaderV3 THEN parse_err ELSE
  IF ~CanRead(b, 2, 2) THEN IoErr ELSE
  IF U8(b, 3) # SizeofFileMeshFace THEN parse_err ELSE
  IF ~CanRead(b, 4, 12) THEN IoErr ELSE
  LET sizeof_vertex == U8(b, 2)
      num_lod_offsets == U16(b, 6)
      num_verts == U32(b, 8)
      num_faces == U32(b, 12)
  IN  IF sizeof_vertex # FILEMESH_VERTEX_SIZE_WITH_RGBA THEN parse_err
      ELSE ReadBodyWithLods(b, 16, num_verts, num_faces, num_lod_offsets, TRUE)

\* The skinning/subset check of parse_v4 and parse_v5.
HasSkinningNoBones(num_bones, sizeof_bone_names, num_subsets) ==
  sizeof_bone_names # 0 \/ num_subsets # 0
HasSkinning(num_bones, sizeof_bone_names, num_subsets) ==
  num_bones # 0 \/ sizeof_bone_names # 0 \/ num_subsets # 0

\* The inferred vertex stride of parse_v4: -1 for a failed checked_sub.
V4VertexBlockBytes(total_len, current_pos, num_faces, num_lod_offsets) ==
  LET faces_bytes == num_faces * SizeofFileMeshFace
      lod_bytes == num_lod_offsets * 4
  IN  IF total_len < current_pos THEN -1
      ELSE IF total_len - current_pos < faces_bytes + lod_bytes THEN -1
      ELSE total_len - current_pos - (faces_bytes + lod_bytes)

parse_v4(b) ==
  IF ~CanRead(b, 0, 2) THEN IoErr ELSE
  IF U16(b, 0) # SizeofFileMeshHeaderV4 THEN parse_err ELSE
  IF ~CanRead(b, 2, 22) THEN IoErr ELSE
  LET num_verts == U32(b, 4)
      num_faces == U32(b, 8)
      num_lod_offsets == U16(b, 12)
      num_bones == U16(b, 14)
      sizeof_bone_names == U32(b, 16)
      num_subsets == U16(b, 20)
      vertex_block_bytes == V4VertexBlockBytes(Len(b), 24, num_faces, num_lod_offsets)
  IN  IF HasSkinning(num_bones, sizeof_bone_names, num_subsets) THEN Unsupported
      ELSE IF vertex_block_bytes < 0 THEN parse_err
      ELSE IF num_verts = 0 THEN Panic   \* usize division by zero
      ELSE LET sizeof_vertex == vertex_block_bytes \div num_verts
           IN  IF sizeof_vertex = FILEMESH_VERTEX_SIZE_WITH_RGBA
               THEN ReadBodyWithLods(b, 24, num_verts, num_faces, num_lod_offsets, TRUE)
               ELSE IF sizeof_vertex = FILEMESH_VERTEX_SIZE_WITH_RGBA - 4
               THEN ReadBodyWithLods(b, 24, num_verts, num_faces, num_lod_offsets, FALSE)
               ELSE parse_err

parse_v5(b) ==
  IF ~CanRead(b, 0, 2) THEN IoErr ELSE
  IF U16(b, 0) # SizeofFileMeshHeaderV5 THEN parse_err ELSE
  IF ~CanRead(b, 2, 30) THEN IoErr ELSE
  LET num_verts == U32(b, 4)
      num_faces == U32(b, 8)
      num_lod_offsets == U16(b, 12)
      num_bones == U16(b, 14)
      sizeof_bone_names == U32(b, 16)
      num_subsets == U16(b, 20)
      facs_format == U32(b, 24)
      facs_size == U32(b, 28)
  IN  IF HasSkinning(num_bones, sizeof_bone_names, num_subsets) THEN Unsupported
      ELSE IF facs_format # 0 \/ facs_size # 0 THEN Unsupported
      ELSE ReadBodyWithLods(b, 32, num_verts, num_faces, num_lod_offsets, TRUE)

(***************************************************************************)
(* The ASCII decoder (v1.00 / v1.01), on the code points of the body.      *)
(* Float literals of the model are [sign] digits [. digits]; exponents,    *)
(* "inf" and "nan" are outside the fixed-point model and its inputs.       *)
(***************************************************************************)
\* str::find of a single char: 1-based index of the first x, 0 for None.
Find(s, x) ==
  LET at == {i \in DOMAIN s : s[i] = x}
  IN  IF at = {} THEN 0 ELSE CHOOSE i \in at : \A j \in at : i <= j

\* Lines::next on the remaining text.
NextLine(cs) ==
  IF cs = <<>> THEN [some |-> FALSE, line |-> <<>>, rest |-> <<>>]
  ELSE LET i == Find(cs, 10)
           raw == IF i = 0 THEN cs ELSE SubSeq(cs, 1, i - 1)
           line == IF i # 0 /\ raw # <<>> /\ raw[Len(raw)] = 13
                   THEN SubSeq(raw, 1, Len(raw) - 1) ELSE raw
       IN  [some |-> TRUE, line |-> line,
            rest |-> IF i = 0 THEN <<>> ELSE SubSeqFrom(cs, i + 1)]

IsDigit(c) == c >= 48 /\ c <= 57

RECURSIVE DigitsValue(_, _)
DigitsValue(ds, acc) ==
  IF ds = <<>> THEN acc ELSE DigitsValue(Tail(ds), acc * 10 + (Head(ds) - 48))

\* Decimal digit sequences, for the usize values beyond the integers of the
\* model: the digits of value(ds) * m + carry.
RECURSIVE MulAdd(_, _, _)
MulAdd(ds, m, carry) ==
  IF ds = <<>>
  THEN IF carry = 0 THEN <<>> ELSE Append(MulAdd(<<>>, m, carry \div 10), carry % 10)
  ELSE LET t == ds[Len(ds)] * m + carry
       IN  Append(MulAdd(SubSeq(ds, 1, Len(ds) - 1), m, t \div 10), t % 10)

RECURSIVE StripZeros(_)
StripZeros(ds) == IF ds # <<>> /\ Head(ds) = 0 THEN StripZeros(Tail(ds)) ELSE ds

RECURSIVE DigitsLess(_, _)
DigitsLess(a, b) ==
  IF Len(a) # Len(b) THEN Len(a) < Len(b)
  ELSE IF a = <<>> THEN FALSE
  ELSE IF Head(a) # Head(b) THEN Head(a) < Head(b)
  ELSE DigitsLess(Tail(a), Tail(b))

\* usize::MAX on the 64-bit target, 18446744073709551615.
UsizeMax == <<1, 8, 4, 4, 6, 7, 4, 4, 0, 7, 3, 7, 0, 9, 5, 5, 1, 6, 1, 5>>

\* usize::from_str: an optional '+', then one or more digits; a value above
\* usize::MAX is an error. val is the value when it is below 10^9, and
\* digits the value in every case.
ParseUsize(cs) ==
  LET ds == IF cs # <<>> /\ Head(cs) = 43 THEN Tail(cs) ELSE cs
  IN  IF ds = <<>> \/ \E i \in DOMAIN ds : ~IsDigit(ds[i])
      THEN [ok |-> FALSE, val |-> 0, big |-> FALSE, digits |-> <<>>]
      ELSE LET nz == StripZeros([i \in DOMAIN ds |-> ds[i] - 48])
           IN  IF DigitsLess(UsizeMax, nz)
               THEN [ok |-> FALSE, val |-> 0, big |-> FALSE, digits |-> <<>>]
               ELSE IF Len(nz) > 9
               THEN [ok |-> TRUE, val |-> 0, big |-> TRUE, digits |-> nz]
               ELSE [ok |-> TRUE, val |-> DigitsValue(ds, 0), big |-> FALSE, digits |-> nz]

\* num_faces * 9 for a face count of 10^9 or more, compared with the number
\* of vectors n (below 10^9). Without overflow the product is above n. With
\* overflow the wrapped product is n when 9 * num_faces = n + k * 2^64; the
\* decoder then goes on to Vec::with_capacity(num_faces), a capacity
\* overflow for a count this large.
VectorCountCheckBig(digits, n) ==
  LET product == MulAdd(digits, 9, 0)
  IN  IF ~DigitsLess(UsizeMax, product) THEN parse_err
      ELSE Overflow(IF \E k \in 1..8 : product = MulAdd(MulAdd(UsizeMax, 1, 1), k, n)
                    THEN Panic ELSE parse_err)

RECURSIVE Pow10(_)
Pow10(n) == IF n = 0 THEN 1 ELSE 10 * Pow10(n - 1)

\* The fraction digits as a count of 10^-7 units, the 8th digit rounding.
FractionValue(fs) ==
  LET kept == SubSeq(fs, 1, Min(Len(fs), 7))
      up == IF Len(fs) >= 8 /\ fs[8] >= 53 THEN 1 ELSE 0
  IN  DigitsValue(kept, 0) * Pow10(7 - Len(kept)) + up

\* f32::from_str on [sign] digits [. digits] with at least one digit.
ParseF32(cs) ==
  LET neg == cs # <<>> /\ Head(cs) = 45
      body == IF cs # <<>> /\ Head(cs) \in {43, 45} THEN Tail(cs) ELSE cs
      dot == Find(body, 46)
      ip == IF dot = 0 THEN body ELSE SubSeq(body, 1, dot - 1)
      fp == IF dot = 0 THEN <<>> ELSE SubSeqFrom(body, dot + 1)
      wellformed == /\ Len(ip) + Len(fp) >= 1
                    /\ \A i \in DOMAIN ip : IsDigit(ip[i])
                    /\ \A i \in DOMAIN fp : IsDigit(fp[i])
  IN  IF ~wellformed THEN [ok |-> FALSE, val |-> 0]
      ELSE LET mag == DigitsValue(ip, 0) * One + FractionValue(fp)
           IN  [ok |-> TRUE, val |-> IF neg THEN 0 - mag ELSE mag]

\* str::split(','): the pieces between commas (always at least one piece).
RECURSIVE SplitComma(_)
SplitComma(cs) ==
  LET i == Find(cs, 44)
  IN  IF i = 0 THEN <<cs>>
      ELSE <<SubSeq(cs, 1, i - 1)>> \o SplitComma(SubSeqFrom(cs, i + 1))

RECURSIVE parse_bracket_vectors_loop(_, _)
parse_bracket_vectors_loop(rest, vectors) ==
  LET start == Find(rest, 91) IN
  IF start = 0 THEN [ok |-> TRUE, val |-> vectors] ELSE
  LET after_start == SubSeqFrom(rest, start + 1)
      end_rel == Find(after_start, 93)
  IN  IF end_rel = 0 THEN [ok |-> FALSE, val |-> <<>>] ELSE
      LET inside == SubSeq(after_start, 1, end_rel - 1)
          comps == SplitComma(inside)
          parsed == [i \in DOMAIN comps |-> ParseF32(trim(comps[i]))]
      IN  IF \E i \in DOMAIN parsed : ~parsed[i].ok THEN [ok |-> FALSE, val |-> <<>>]
          ELSE IF Len(comps) # 3 THEN [ok |-> FALSE, val |-> <<>>]
          ELSE parse_bracket_vectors_loop(
                 SubSeqFrom(after_start, end_rel + 1),
                 Append(vectors, <<parsed[1].val, parsed[2].val, parsed[3].val>>))

parse_bracket_vectors(data_line) == parse_bracket_vectors_loop(data_line, <<>>)

\* pos * 0.5: halving keeps the nearest 10^-7 unit.
Half(x) == IF x >= 0 THEN (x + 1) \div 2 ELSE 0 - ((1 - x) \div 2)

V1Corner(vectors, base, scale_half) ==
  LET p == vectors[base]
      n == vectors[base + 1]
      t == vectors[base + 2]
  IN  IntermediateVertex(
        IF scale_half THEN <<Half(p[1]), Half(p[2]), Half(p[3])>> ELSE p,
        n, <<t[1], FlipV(t[2])>>)

parse_v1(body, scale_half) ==
  LET s == from_utf8(body) IN
  IF ~s.ok THEN parse_err ELSE
  LET l1 == NextLine(s.chars) IN
  IF ~l1.some THEN parse_err ELSE
  LET nf == ParseUsize(trim(l1.line)) IN
  IF ~nf.ok THEN parse_err ELSE
  LET l2 == NextLine(l1.rest) IN
  IF ~l2.some THEN parse_err ELSE
  LET vs == parse_bracket_vectors(trim(l2.line)) IN
  IF ~vs.ok THEN parse_err ELSE
  IF nf.big THEN VectorCountCheckBig(nf.digits, Len(vs.val)) ELSE
  IF Len(vs.val) # nf.val * 9 THEN parse_err ELSE
  MeshV([k \in 1..(nf.val * 3) |->
           V1Corner(vs.val, ((k - 1) \div 3) * 9 + ((k - 1) % 3) * 3 + 1, scale_half)],
        [i \in 1..nf.val |-> <<3 * (i - 1), 3 * (i - 1) + 1, 3 * (i - 1) + 2>>])

(***************************************************************************)
(* parse_filemesh: the version line and the dispatch                       *)
(***************************************************************************)
VersionPrefix == <<118, 101, 114, 115, 105, 111, 110, 32>>   \* "version "
VersionLit(a, b, c) == VersionPrefix \o <<48 + a, 46, 48 + b, 48 + c>>

\* The match on version_str.
DispatchDefaultV2(version_str, body) ==
  IF version_str = VersionLit(1, 0, 0) THEN parse_v1(body, TRUE)
  ELSE IF version_str = VersionLit(1, 0, 1) THEN parse_v1(body, FALSE)
  ELSE IF version_str \in {VersionLit(3, 0, 0), VersionLit(3, 0, 1)} THEN parse_v3(body)
  ELSE IF version_str \in {VersionLit(4, 0, 0), VersionLit(4, 0, 1)} THEN parse_v4(body)
  ELSE IF version_str = VersionLit(5, 0, 0) THEN parse_v5(body)
  ELSE parse_v2(body)

Dispatch(version_str, body) ==
  IF version_str = VersionLit(1, 0, 0) THEN parse_v1(body, TRUE)
  ELSE IF version_str = VersionLit(1, 0, 1) THEN parse_v1(body, FALSE)
  ELSE IF version_str = VersionLit(2, 0, 0) THEN parse_v2(body)
  ELSE IF version_str \in {VersionLit(3, 0, 0), VersionLit(3, 0, 1)} THEN parse_v3(body)
  ELSE IF version_str \in {VersionLit(4, 0, 0), VersionLit(4, 0, 1)} THEN parse_v4(body)
  ELSE IF version_str = VersionLit(5, 0, 0) THEN parse_v5(body)
  ELSE Unsupported

\* data[..newline] with one trailing '\r' removed.
HeaderBytes(data) ==
  LET raw == SubSeq(data, 1, Find(data, 10) - 1)
  IN  IF raw # <<>> /\ raw[Len(raw)] = 13 THEN SubSeq(raw, 1, Len(raw) - 1) ELSE raw

parse_filemesh(data) ==
  LET newline == Find(data, 10) IN
  IF newline = 0 THEN parse_err ELSE
  LET decoded == from_utf8(HeaderBytes(data)) IN
  IF ~decoded.ok THEN parse_err
  ELSE Dispatch(trim(decoded.chars), SubSeqFrom(data, newline + 1))

(***************************************************************************)
(* Operations. cur is the value the next operation consumes, input the     *)
(* value the run started from, hist the operations applied so far.         *)
(***************************************************************************)
MaxSteps == 2

ParseFilemesh ==
  /\ Len(hist) < MaxSteps
  /\ cur.kind = "bytes"
  /\ cur' \in Outcomes(parse_filemesh(cur.bytes))
  /\ hist' = Append(hist, "parse_filemesh")
  /\ UNCHANGED input

(***************************************************************************)
(* Inputs of the header specification: a version line built from padding,  *)
(* a version text and an optional "\r", then the newline and a body.       *)
(***************************************************************************)
MaxPad == 1

\* ' ', '\r', U+00A0 (a Unicode space, 2 bytes), 0xFF (never UTF-8), 'x'.
PadAtoms == {<<32>>, <<13>>, <<194, 160>>, <<255>>, <<120>>}

RECURSIVE Pads(_)
Pads(n) ==
  IF n = 0 THEN {<<>>} ELSE Pads(n - 1) \cup {p \o a : p \in Pads(n - 1), a \in PadAtoms}

VersionLiterals ==
  {VersionLit(1, 0, 0), VersionLit(1, 0, 1), VersionLit(2, 0, 0), VersionLit(3, 0, 0),
   VersionLit(3, 0, 1), VersionLit(4, 0, 0), VersionLit(4, 0, 1), VersionLit(5, 0, 0)}

\* "", "version 1.02", "version 6.00", "version 2.0", "Version 2.00",
\* "version  2.00".
NearMisses ==
  {<<>>, VersionLit(1, 0, 2), VersionLit(6, 0, 0), VersionPrefix \o <<50, 46, 48>>,
   <<86>> \o Tail(VersionLit(2, 0, 0)), VersionPrefix \o <<32, 50, 46, 48, 48>>}

\* An empty body, the v2 header of an empty mesh, the v1 text "0\n\n".
HeaderBodies == {<<>>, <<12, 0, 40, 12, 0, 0, 0, 0, 0, 0, 0, 0>>, <<48, 10, 10>>}

HeaderInputs ==
  {pre \o core \o post \o cr \o nl \o body :
     pre \in Pads(MaxPad), core \in VersionLiterals \cup NearMisses,
     post \in Pads(MaxPad), cr \in {<<>>, <<13>>}, nl \in {<<>>, <<10>>},
     body \in HeaderBodies}

InitHeader ==
  /\ input \in {BytesV(b) : b \in HeaderInputs}
  /\ cur = input
  /\ hist = <<>>

NextDecode == ParseFilemesh

SpecHeader == InitHeader /\ [][NextDecode]_vars

Decoded == hist = <<"parse_filemesh">>

\* The version text of a buffer that has a newline: the header trimmed when
\* it is UTF-8, the raw header bytes (never a literal) when it is not.
HeaderText(data) ==
  LET d == from_utf8(HeaderBytes(data))
  IN  IF d.ok THEN trim(d.chars) ELSE HeaderBytes(data)

HeaderIsUtf8(data) == from_utf8(HeaderBytes(data)).ok

\* C1 as stated: every buffer with a newline whose header, one trailing CR
\* stripped and trimmed, is none of the eight literals fails with
\* Unsupported, whatever the header bytes and the body.
C1_AnyHeaderUnsupported ==
  (Decoded /\ Find(input.bytes, 10) # 0 /\ HeaderText(input.bytes) \notin VersionLiterals)
    => cur = Unsupported

\* C1 amended: a header that is valid UTF-8 and, trimmed, none of the eight
\* literals fails with Unsupported; a header that is not valid UTF-8 fails
\* with RobloxMeshParse; both whatever the body contains.
C1_Utf8HeaderUnsupported ==
  (Decoded /\ Find(input.bytes, 10) # 0)
    => /\ (HeaderIsUtf8(input.bytes) /\ HeaderText(input.bytes) \notin VersionLiterals)
            => cur = Unsupported
       /\ ~HeaderIsUtf8(input.bytes) => cur = parse_err

\* A near-miss version text with padding and a non-empty body was rejected.
C1_Witness ==
  /\ Decoded
  /\ Find(input.bytes, 10) # 0
  /\ HeaderIsUtf8(input.bytes)
  /\ HeaderText(input.bytes) = VersionLit(6, 0, 0)
  /\ Len(HeaderBytes(input.bytes)) > 12
  /\ Len(input.bytes) > Find(input.bytes, 10)
  /\ cur = Unsupported

(***************************************************************************)
(* Inputs of the binary decoder specification: buffers laid out as the     *)
(* formats declare, with header fields or the length then varied.          *)
(***************************************************************************)
MaxVerts == 2
MaxFaces == 5

LE16(n) == <<n % 256, (n \div 256) % 256>>
LE32(n) == <<n % 256, (n \div 256) % 256, (n \div 65536) % 256, (n \div 16777216) % 256>>
\* f32::to_le_bytes in the sign-and-magnitude pattern F32 reads.
F32Bytes(x) ==
  LET mag == IF x < 0 THEN 0 - x ELSE x
  IN  <<mag % 256, (mag \div 256) % 256, (mag \div 65536) % 256,
        ((mag \div 16777216) % 128) + (IF x < 0 THEN 128 ELSE 0)>>

BinaryVersions ==
  {VersionLit(2, 0, 0), VersionLit(3, 0, 0), VersionLit(3, 0, 1),
   VersionLit(4, 0, 0), VersionLit(4, 0, 1), VersionLit(5, 0, 0)}

\* The major version digit of a version literal.
Major(ver) == ver[9] - 48

HeaderSizeOf(ver) ==
  IF Major(ver) = 2 THEN SizeofFileMeshHeaderV2
  ELSE IF Major(ver) = 3 THEN SizeofFileMeshHeaderV3
  ELSE IF Major(ver) = 4 THEN SizeofFileMeshHeaderV4
  ELSE SizeofFileMeshHeaderV5

\* The header record of each version, field by field (mesh_types.rs).
BuildHeader(ver, h) ==
  IF Major(ver) = 2
  THEN LE16(h.hs) \o <<h.stride, h.fstride>> \o LE32(h.nv) \o LE32(h.nf)
  ELSE IF Major(ver) = 3
  THEN LE16(h.hs) \o <<h.stride, h.fstride>> \o LE16(4) \o LE16(h.nl)
       \o LE32(h.nv) \o LE32(h.nf)
  ELSE LE16(h.hs) \o LE16(0) \o LE32(h.nv) \o LE32(h.nf) \o LE16(h.nl) \o LE16(h.bones)
       \o LE32(h.bnames) \o LE16(h.subsets) \o <<1, 0>>
       \o (IF Major(ver) = 5 THEN LE32(h.facsf) \o LE32(h.facss) ELSE <<>>)

\* Vertex record k of the inputs: distinct u and v per vertex. Every byte of
\* these buffers is below 128, so that whatever four bytes a misplaced read
\* takes for a u32 stay below 2^31, the largest integer TLC computes with.
BuildVertex(k, rgba) ==
  F32Bytes(3 * k) \o F32Bytes(5) \o F32Bytes(One)
  \o F32Bytes(0) \o F32Bytes(One) \o F32Bytes(0)
  \o F32Bytes(k + 1) \o F32Bytes(2500000 + k)
  \o <<0, 0, 127, 127>> \o (IF rgba THEN <<100, 100, 100, 100>> ELSE <<>>)

\* Face i of the inputs: an index below nv, or at least nv when bad.
BuildFace(i, nv, bad) ==
  LET idx == IF bad \/ nv = 0 THEN nv + i - 1 ELSE (i - 1) % nv
  IN  LE32(idx) \o LE32(idx) \o LE32(idx)

BuildPayload(nv, rgba, nf, bad, lods) ==
  Flatten([k \in 1..nv |-> BuildVertex(k, rgba)])
  \o Flatten([i \in 1..nf |-> BuildFace(i, nv, bad)])
  \o Flatten([i \in 1..Len(lods) |-> LE32(lods[i])])

\* delta < 0 drops bytes from the end, delta > 0 appends bytes.
Resize(buf, delta) ==
  IF delta <= 0
  THEN SubSeq(buf, 1, IF Len(buf) + delta < 0 THEN 0 ELSE Len(buf) + delta)
  ELSE buf \o [i \in 1..delta |-> 7]

LodChoices == {<<>>, <<0>>, <<0, 1>>, <<0, 2, 5>>, <<0, 7>>}
Deltas == {0 - 40, 0 - 12, 0 - 4, 0 - 1, 0, 1, 4}

WellFormedHeader(ver, nv, nf, nl, rgba) ==
  [hs |-> HeaderSizeOf(ver),
   stride |-> IF rgba THEN FILEMESH_VERTEX_SIZE_WITH_RGBA
              ELSE FILEMESH_VERTEX_SIZE_WITH_RGBA - 4,
   fstride |-> SizeofFileMeshFace, nv |-> nv, nf |-> nf, nl |-> nl,
   bones |-> 0, bnames |-> 0, subsets |-> 0, facsf |-> 0, facss |-> 0]

\* Layouts: every count, both record shapes, every LOD list, resized.
LayoutInputs ==
  {ver \o <<10>> \o
     Resize(BuildHeader(ver, WellFormedHeader(ver, nv, nf, Len(lods), rgba))
            \o BuildPayload(nv, rgba, nf, bad,
                            IF Major(ver) = 2 THEN <<>> ELSE lods), delta) :
     ver \in BinaryVersions, nv \in 0..MaxVerts, nf \in {0, 1, MaxFaces},
     lods \in LodChoices, rgba \in BOOLEAN, bad \in BOOLEAN, delta \in Deltas}

Keeps == {1, 3, 15, 23, 31, 1000}

\* Header fields: every combination of the checked fields on a one-vertex,
\* one-face mesh, the body cut to its first `keep` bytes.
FieldInputs ==
  {ver \o <<10>> \o
     LET body == BuildHeader(ver,
                   [hs |-> IF hsok THEN HeaderSizeOf(ver) ELSE 0, stride |-> stride, fstride |-> fstride,
                    nv |-> 1, nf |-> 1, nl |-> 1, bones |-> sk[1], bnames |-> sk[2],
                    subsets |-> sk[3], facsf |-> facs[1], facss |-> facs[2]])
                 \o BuildPayload(1, rgba, 1, FALSE, <<0>>)
     IN  SubSeq(body, 1, Min(keep, Len(body))) :
     ver \in BinaryVersions, hsok \in BOOLEAN, stride \in {36, 40, 44},
     fstride \in {8, 12}, sk \in {0, 1} \X {0, 1} \X {0, 1}, facs \in {0, 1} \X {0, 1},
     rgba \in BOOLEAN, keep \in Keeps}

InitDecode ==
  /\ input \in {BytesV(b) : b \in LayoutInputs \cup FieldInputs}
  /\ cur = input
  /\ hist = <<>>

SpecDecode == InitDecode /\ [][NextDecode]_vars

(***************************************************************************)
(* What a buffer declares, read off the input for the properties below.    *)
(***************************************************************************)
BodyOf(data) == SubSeqFrom(data, Find(data, 10) + 1)
IsVersion(data, majors) ==
  /\ Find(data, 10) # 0
  /\ HeaderText(data) \in BinaryVersions
  /\ Major(HeaderText(data)) \in majors

\* numVerts, numFaces, numLodOffsets of a complete header record.
DeclVerts(data) ==
  IF Major(HeaderText(data)) = 3 THEN U32(BodyOf(data), 8) ELSE U32(BodyOf(data), 4)
DeclFaces(data) ==
  IF Major(HeaderText(data)) = 3 THEN U32(BodyOf(data), 12) ELSE U32(BodyOf(data), 8)
DeclLods(data) ==
  IF Major(HeaderText(data)) = 2 THEN 0
  ELSE IF Major(HeaderText(data)) = 3 THEN U16(BodyOf(data), 6)
  ELSE U16(BodyOf(data), 12)
\* The v4 vertex block length B: what follows the header, less faces and LODs.
V4BlockLen(data) ==
  Len(BodyOf(data)) - SizeofFileMeshHeaderV4
    - 12 * DeclFaces(data) - 4 * DeclLods(data)

\* C2 as stated: a v4 buffer whose numBones field is non-zero fails with
\* Unsupported, whatever the other header fields (the header size among
\* them) and the rest of the buffer.
C2_BonesAlwaysUnsupported ==
  (Decoded /\ IsVersion(input.bytes, {4}) /\ Len(BodyOf(input.bytes)) >= 16
     /\ U16(BodyOf(input.bytes), 14) # 0)
    => cur = Unsupported

\* C2 amended: a v4 buffer that holds the whole 24-byte header record, declares
\* the header size 24 and has a non-zero numBones fails with Unsupported,
\* whatever the other header fields and the rest of the buffer.
C2_BonesUnsupported ==
  (Decoded /\ IsVersion(input.bytes, {4})
     /\ Len(BodyOf(input.bytes)) >= SizeofFileMeshHeaderV4
     /\ U16(BodyOf(input.bytes), 0) = SizeofFileMeshHeaderV4
     /\ U16(BodyOf(input.bytes), 14) # 0)
    => cur = Unsupported

\* A v4 header whose only non-zero skinning field is numBones was rejected.
C2_Witness ==
  /\ Decoded
  /\ IsVersion(input.bytes, {4})
  /\ Len(BodyOf(input.bytes)) > SizeofFileMeshHeaderV4
  /\ U16(BodyOf(input.bytes), 0) = SizeofFileMeshHeaderV4
  /\ U16(BodyOf(input.bytes), 14) = 1
  /\ U32(BodyOf(input.bytes), 16) = 0
  /\ U16(BodyOf(input.bytes), 20) = 0
  /\ cur = Unsupported

\* C3: every Mesh the decoder returns has all face indices below its vertex
\* count (buffers with an index out of range are rejected).
C3_FaceIndicesInRange ==
  (Decoded /\ cur.kind = "mesh")
    => \A i \in DOMAIN cur.faces : \A c \in 1..3 : cur.faces[i][c] < Len(cur.vertices)

\* The face records and LOD offsets of a v3/v4/v5 buffer, in file order.
VertexStrideOf(data) ==
  IF Major(HeaderText(data)) = 4
  THEN V4BlockLen(data) \div DeclVerts(data)
  ELSE FILEMESH_VERTEX_SIZE_WITH_RGBA
FacesStart(data) ==
  HeaderSizeOf(HeaderText(data)) + DeclVerts(data) * VertexStrideOf(data)
FileFaces(data) ==
  [i \in 1..DeclFaces(data) |->
     <<U32(BodyOf(data), FacesStart(data) + 12 * (i - 1)),
       U32(BodyOf(data), FacesStart(data) + 12 * (i - 1) + 4),
       U32(BodyOf(data), FacesStart(data) + 12 * (i - 1) + 8)>>]
FileLods(data) ==
  [i \in 1..DeclLods(data) |->
     U32(BodyOf(data), FacesStart(data) + 12 * DeclFaces(data) + 4 * (i - 1))]

\* C4: a Mesh returned by the v3, v4 or v5 decoder holds the first
\* min(lod_offsets[1], N) faces of the file when at least two LOD offsets
\* exist, and all N faces when fewer exist.
C4_LodTruncation ==
  (Decoded /\ IsVersion(input.bytes, {3, 4, 5}) /\ cur.kind = "mesh")
    => LET N == DeclFaces(input.bytes)
           lods == FileLods(input.bytes)
           keep == IF Len(lods) >= 2 THEN Min(lods[2], N) ELSE N
       IN  /\ Len(cur.faces) = keep
           /\ cur.faces = SubSeq(FileFaces(input.bytes), 1, keep)

\* LOD offsets [0, 2, 5] with 5 faces in a v3.00 buffer gave 2 faces.
C4_Witness ==
  /\ Decoded
  /\ Find(input.bytes, 10) # 0
  /\ HeaderText(input.bytes) = VersionLit(3, 0, 0)
  /\ cur.kind = "mesh"
  /\ DeclFaces(input.bytes) = 5
  /\ FileLods(input.bytes) = <<0, 2, 5>>
  /\ Len(cur.faces) = 2

\* C5: a v2 buffer with a complete, otherwise valid header whose vertex
\* stride is neither 40 nor 36 fails with RobloxMeshParse.
C5_V2StrideChecked ==
  (Decoded /\ IsVersion(input.bytes, {2})
     /\ Len(BodyOf(input.bytes)) >= SizeofFileMeshHeaderV2
     /\ U16(BodyOf(input.bytes), 0) = SizeofFileMeshHeaderV2
     /\ U8(BodyOf(input.bytes), 3) = SizeofFileMeshFace
     /\ U8(BodyOf(input.bytes), 2) \notin
          {FILEMESH_VERTEX_SIZE_WITH_RGBA, FILEMESH_VERTEX_SIZE_WITH_RGBA - 4})
    => cur = parse_err

\* A v4 buffer with a complete header of the declared size 24 and no bones,
\* bone names or subsets.
V4Plain(data) ==
  /\ IsVersion(data, {4})
  /\ Len(BodyOf(data)) >= SizeofFileMeshHeaderV4
  /\ U16(BodyOf(data), 0) = SizeofFileMeshHeaderV4
  /\ U16(BodyOf(data), 14) = 0
  /\ U32(BodyOf(data), 16) = 0
  /\ U16(BodyOf(data), 20) = 0

V4BlockExact(data) ==
  \E S \in {FILEMESH_VERTEX_SIZE_WITH_RGBA, FILEMESH_VERTEX_SIZE_WITH_RGBA - 4} :
    V4BlockLen(data) = DeclVerts(data) * S

\* C6: a plain v4 buffer decodes only if its vertex block length B equals
\* numVerts * 40 or numVerts * 36, and fails with RobloxMeshParse otherwise.
C6_V4ExactStride ==
  (Decoded /\ V4Plain(input.bytes))
    => /\ cur.kind = "mesh" => V4BlockExact(input.bytes)
       /\ ~V4BlockExact(input.bytes) => cur = parse_err

\* Whether the buffer ends inside a header field, a declared vertex, face or
\* LOD offset, every field it does hold being valid. The v4 vertex record is
\* taken at its smaller size, 36.
Underrun(data) ==
  LET b == BodyOf(data)
      m == Major(HeaderText(data))
      H == HeaderSizeOf(HeaderText(data))
  IN  IF Len(b) < 2 THEN TRUE
      ELSE IF U16(b, 0) # H THEN FALSE
      ELSE IF m \in {2, 3} /\ Len(b) < 4 THEN TRUE
      ELSE IF m \in {2, 3} /\ U8(b, 3) # SizeofFileMeshFace THEN FALSE
      ELSE IF Len(b) < H THEN TRUE
      ELSE IF m = 2 /\ U8(b, 2) \notin {36, 40} THEN FALSE
      ELSE IF m = 3 /\ U8(b, 2) # 40 THEN FALSE
      ELSE IF m \in {4, 5} /\ (U16(b, 14) # 0 \/ U32(b, 16) # 0 \/ U16(b, 20) # 0) THEN FALSE
      ELSE IF m = 5 /\ (U32(b, 24) # 0 \/ U32(b, 28) # 0) THEN FALSE
      ELSE LET S == IF m = 2 THEN U8(b, 2) ELSE IF m = 4 THEN 36 ELSE 40
           IN  Len(b) < H + S * DeclVerts(data) + 12 * DeclFaces(data)
                          + 4 * DeclLods(data)

\* C7: a binary buffer that ends before a header field, a declared vertex,
\* a declared face or a declared LOD offset is complete fails with Io.
C7_UnderrunIsIo ==
  (Decoded /\ IsVersion(input.bytes, {2, 3, 4, 5}) /\ Underrun(input.bytes))
    => cur = IoErr

(***************************************************************************)
(* The binary encoder (ser.rs). as_bytes writes the packed struct as it    *)
(* lies in memory: field by field, little-endian on the modelled target.   *)
(***************************************************************************)
\* FileMeshVertex { px.., tu, tv, ..Default::default() }: tangent 0, 0, -127,
\* 127 and colour 255, 255, 255, 255.
FileVertexBytesFlipped(v) ==
  F32Bytes(v.pos[1]) \o F32Bytes(v.pos[2]) \o F32Bytes(v.pos[3])
  \o F32Bytes(v.normal[1]) \o F32Bytes(v.normal[2]) \o F32Bytes(v.normal[3])
  \o F32Bytes(v.uv[1]) \o F32Bytes(One - v.uv[2])
  \o <<0, 0, 129, 127>> \o <<255, 255, 255, 255>>

FileVertexBytes(v) ==
  F32Bytes(v.pos[1]) \o F32Bytes(v.pos[2]) \o F32Bytes(v.pos[3])
  \o F32Bytes(v.normal[1]) \o F32Bytes(v.normal[2]) \o F32Bytes(v.normal[3])
  \o F32Bytes(v.uv[1]) \o F32Bytes(v.uv[2])
  \o <<0, 0, 129, 127>> \o <<255, 255, 255, 255>>

FileFaceBytes(f) == LE32(f[1]) \o LE32(f[2]) \o LE32(f[3])

write_v2(mesh) ==
  BytesV(VersionLit(2, 0, 0) \o <<10>>
         \o LE16(SizeofFileMeshHeaderV2)
         \o <<FILEMESH_VERTEX_SIZE_WITH_RGBA, SizeofFileMeshFace>>
         \o LE32(Len(mesh.vertices)) \o LE32(Len(mesh.faces))
         \o Flatten([k \in DOMAIN mesh.vertices |-> FileVertexBytes(mesh.vertices[k])])
         \o Flatten([i \in DOMAIN mesh.faces |-> FileFaceBytes(mesh.faces[i])]))

WriteV2 ==
  /\ Len(hist) < MaxSteps
  /\ cur.kind = "mesh"
  /\ cur' = write_v2(cur)
  /\ hist' = Append(hist, "write_v2")
  /\ UNCHANGED input

(***************************************************************************)
(* Inputs of the encoder and OBJ specifications: small meshes, face        *)
(* indices in and out of range, values with digits below 10^-6.            *)
(***************************************************************************)
MaxMeshVerts == 3
MaxMeshFaces == 2

VertexChoices ==
  {IntermediateVertex(<<0, 0, 0>>, <<0, One, 0>>, <<0, 0>>),
   IntermediateVertex(<<One, 0 - 5, 12>>, <<0 - One, 0, 0>>, <<2500000, 7500000>>),
   IntermediateVertex(<<15000004, 3, 0 - 20000000>>, <<3, 4, 0 - 6>>, <<0 - 3, 12000015>>)}

FaceChoices == {<<0, 0, 0>>, <<0, 1, 2>>, <<2, 1, 0>>, <<1, 0, 1>>, <<0, 1, 3>>}

RECURSIVE SeqsUpTo(_, _)
SeqsUpTo(S, n) ==
  IF n = 0 THEN {<<>>}
  ELSE SeqsUpTo(S, n - 1) \cup {Append(q, x) : q \in SeqsUpTo(S, n - 1), x \in S}

Meshes ==
  {MeshV(vs, fs) : vs \in SeqsUpTo(VertexChoices, MaxMeshVerts),
                   fs \in SeqsUpTo(FaceChoices, MaxMeshFaces)}

InitEncode ==
  /\ input \in Meshes
  /\ cur = input
  /\ hist = <<>>

NextEncode == WriteV2 \/ ParseFilemesh

SpecEncode == InitEncode /\ [][NextEncode]_vars

\* C8: parse_filemesh(write_v2(M)) returns M's vertices with every V
\* replaced by 1 - V.
C8_RoundTripFlipsV ==
  (hist = <<"write_v2", "parse_filemesh">>)
    => /\ cur.kind = "mesh"
       /\ Len(cur.vertices) = Len(input.vertices)
       /\ \A k \in DOMAIN input.vertices :
            cur.vertices[k].uv[2] = One - input.vertices[k].uv[2]

\* A vertex with V = 0.75 came back with V = 0.25.
C8_Witness ==
  /\ hist = <<"write_v2", "parse_filemesh">>
  /\ cur.kind = "mesh"
  /\ \E k \in DOMAIN input.vertices :
       /\ input.vertices[k].uv[2] = 7500000
       /\ cur.vertices[k].uv[2] = 2500000

(***************************************************************************)
(* OBJ text. A buffer of OBJ text is modelled as its sequence of lines,     *)
(* each a record: tag "v", "vt", "vn" with the printed numbers, "f" with    *)
(* three corners <<v, vt, vn>> of 1-based indices (0: index absent), "o"    *)
(* for an object line. A printed number has 6 decimals and is the integer   *)
(* count of 10^-6 it denotes.                                               *)
(***************************************************************************)
Line(tag, nums, corners) == [tag |-> tag, nums |-> nums, corners |-> corners]

\* {:.6}: the nearest multiple of 10^-6, ties to even.
Fmt6(x) ==
  LET q == x \div 10
      r == x % 10
  IN  IF r > 5 \/ (r = 5 /\ q % 2 = 1) THEN q + 1 ELSE q

\* str::parse::<f32> of a number printed with 6 decimals.
ParseDec6(t) == t * 10

ObjVtLineNoFlip(v) == Line("vt", <<Fmt6(v.uv[1]), Fmt6(v.uv[2])>>, <<>>)
ObjVtLine(v) == Line("vt", <<Fmt6(v.uv[1]), Fmt6(One - v.uv[2])>>, <<>>)

\* A u32 of 2^31 or more is written as the negative integer of the same
\* 32-bit pattern: u32::MAX is -1.
U32_MAX == 0 - 1

\* face[c] + 1 on u32, as it wraps where overflow is not checked.
WrappingSucc(k) == IF k = U32_MAX THEN 0 ELSE k + 1

ObjFaceLine(f) ==
  Line("f", <<>>, <<<<WrappingSucc(f[1]), WrappingSucc(f[1]), WrappingSucc(f[1])>>,
                   <<WrappingSucc(f[2]), WrappingSucc(f[2]), WrappingSucc(f[2])>>,
                   <<WrappingSucc(f[3]), WrappingSucc(f[3]), WrappingSucc(f[3])>>>>)

ObjText(mesh) ==
  ObjV([k \in DOMAIN mesh.vertices |->
          Line("v", <<Fmt6(mesh.vertices[k].pos[1]), Fmt6(mesh.vertices[k].pos[2]),
                      Fmt6(mesh.vertices[k].pos[3])>>, <<>>)]
       \o [k \in DOMAIN mesh.vertices |-> ObjVtLine(mesh.vertices[k])]
       \o [k \in DOMAIN mesh.vertices |->
          Line("vn", <<Fmt6(mesh.vertices[k].normal[1]), Fmt6(mesh.vertices[k].normal[2]),
                       Fmt6(mesh.vertices[k].normal[3])>>, <<>>)]
       \o [i \in DOMAIN mesh.faces |-> ObjFaceLine(mesh.faces[i])])

\* face[c] + 1 overflows for the index u32::MAX.
mesh_to_obj_bytes(mesh) ==
  IF \E i \in DOMAIN mesh.faces : \E c \in 1..3 : mesh.faces[i][c] = U32_MAX
  THEN Overflow(ObjText(mesh))
  ELSE ObjText(mesh)

MeshToObjBytes ==
  /\ Len(hist) < MaxSteps
  /\ cur.kind = "mesh"
  /\ cur' \in Outcomes(mesh_to_obj_bytes(cur))
  /\ hist' = Append(hist, "mesh_to_obj_bytes")
  /\ UNCHANGED input

(***************************************************************************)
(* tobj::load_obj_buf with triangulate and single_index (the library the   *)
(* importer calls): v/vt/vn fill file-wide arrays; an "o" line or the end   *)
(* of the text closes the object being read; closing an object gives each  *)
(* distinct corner <<v, vt, vn>> one index, in order of first use, and      *)
(* copies its position, texcoord and normal into the object's own arrays.   *)
(***************************************************************************)
EmptyTobjMesh == [positions |-> <<>>, texcoords |-> <<>>, normals |-> <<>>,
                  indices |-> <<>>, index_map |-> <<>>, ok |-> TRUE]

\* add_vertex: one corner of a face.
TobjAddVertex(m, vert, pos, tex, nrm) ==
  IF ~m.ok THEN m
  ELSE IF vert \in DOMAIN m.index_map
  THEN [m EXCEPT !.indices = Append(@, m.index_map[vert])]
  ELSE IF vert[1] < 1 \/ vert[1] > Len(pos) THEN [m EXCEPT !.ok = FALSE]
  ELSE IF tex # <<>> /\ vert[2] # 0 /\ vert[2] > Len(tex) THEN [m EXCEPT !.ok = FALSE]
  ELSE IF nrm # <<>> /\ vert[3] # 0 /\ vert[3] > Len(nrm) THEN [m EXCEPT !.ok = FALSE]
  ELSE LET next == Cardinality(DOMAIN m.index_map)
       IN  [m EXCEPT
              !.positions = Append(@, pos[vert[1]]),
              !.texcoords = IF tex # <<>> /\ vert[2] # 0 THEN Append(@, tex[vert[2]]) ELSE @,
              !.normals = IF nrm # <<>> /\ vert[3] # 0 THEN Append(@, nrm[vert[3]]) ELSE @,
              !.indices = Append(@, next),
              !.index_map = [c \in DOMAIN m.index_map \cup {vert} |->
                               IF c = vert THEN next ELSE m.index_map[c]]]

RECURSIVE TobjExportFaces(_, _, _, _, _)
TobjExportFaces(m, faces, pos, tex, nrm) ==
  IF faces = <<>> THEN m
  ELSE LET f == Head(faces)
           m3 == TobjAddVertex(TobjAddVertex(TobjAddVertex(m, f[1], pos, tex, nrm),
                                             f[2], pos, tex, nrm), f[3], pos, tex, nrm)
       IN  TobjExportFaces(m3, Tail(faces), pos, tex, nrm)

ParseNums(nums) == [i \in DOMAIN nums |-> ParseDec6(nums[i])]

RECURSIVE TobjLoadLoop(_, _)
TobjLoadLoop(lines, st) ==
  IF lines = <<>>
  THEN [st EXCEPT !.models =
          Append(@, TobjExportFaces(EmptyTobjMesh, st.faces, st.pos, st.tex, st.nrm))]
  ELSE LET l == Head(lines)
           st2 ==
             IF l.tag = "v" THEN [st EXCEPT !.pos = Append(@, ParseNums(l.nums))]
             ELSE IF l.tag = "vt" THEN [st EXCEPT !.tex = Append(@, ParseNums(l.nums))]
             ELSE IF l.tag = "vn" THEN [st EXCEPT !.nrm = Append(@, ParseNums(l.nums))]
             ELSE IF l.tag = "f" THEN [st EXCEPT !.faces = Append(@, l.corners)]
             ELSE IF st.faces # <<>>
             THEN [st EXCEPT
                     !.models = Append(@, TobjExportFaces(EmptyTobjMesh, st.faces,
                                                          st.pos, st.tex, st.nrm)),
                     !.faces = <<>>]
             ELSE st
       IN  TobjLoadLoop(Tail(lines), st2)

\* The models of an OBJ text; ok is FALSE for a LoadError.
TobjLoad(lines) ==
  LET st == TobjLoadLoop(lines, [pos |-> <<>>, tex |-> <<>>, nrm |-> <<>>,
                                 faces |-> <<>>, models |-> <<>>])
  IN  [ok |-> \A i \in DOMAIN st.models : st.models[i].ok, models |-> st.models]

(***************************************************************************)
(* obj_to_intermediate (importer.rs)                                       *)
(***************************************************************************)
\* The vertex built for an original index seen for the first time.
ImportVertex(mesh, idx) ==
  LET p == mesh.positions[idx + 1]
      n == IF mesh.normals # <<>> /\ idx < Len(mesh.normals)
           THEN mesh.normals[idx + 1] ELSE <<0, One, 0>>
      t == IF mesh.texcoords # <<>> /\ idx < Len(mesh.texcoords)
           THEN mesh.texcoords[idx + 1] ELSE <<0, 0>>
  IN  IntermediateVertex(p, n, <<t[1], One - t[2]>>)

ImportCornerOffByOne(acc, mesh, original_index) ==
  IF original_index \in DOMAIN acc.vertex_map
  THEN [acc EXCEPT !.corners = Append(@, acc.vertex_map[original_index])]
  ELSE LET stored == Len(acc.vertices) + 1
       IN  [acc EXCEPT
              !.vertices = Append(@, ImportVertex(mesh, original_index)),
              !.vertex_map = [x \in DOMAIN acc.vertex_map \cup {original_index} |->
                                IF x = original_index THEN stored ELSE acc.vertex_map[x]],
              !.corners = Append(@, stored)]

\* One face corner: the slot of original_index, a new vertex when unseen.
\* acc.corners collects the new indices, three per face.
ImportCorner(acc, mesh, original_index) ==
  IF original_index \in DOMAIN acc.vertex_map
  THEN [acc EXCEPT !.corners = Append(@, acc.vertex_map[original_index])]
  ELSE LET stored == Len(acc.vertices)
       IN  [acc EXCEPT
              !.vertices = Append(@, ImportVertex(mesh, original_index)),
              !.vertex_map = [x \in DOMAIN acc.vertex_map \cup {original_index} |->
                                IF x = original_index THEN stored ELSE acc.vertex_map[x]],
              !.corners = Append(@, stored)]

RECURSIVE ImportIndices(_, _, _)
ImportIndices(acc, mesh, i) ==
  IF i + 2 > Len(mesh.indices) THEN acc
  ELSE ImportIndices(
         ImportCorner(ImportCorner(ImportCorner(acc, mesh, mesh.indices[i]),
                                   mesh, mesh.indices[i + 1]), mesh, mesh.indices[i + 2]),
         mesh, i + 3)

\* The body of `for model in models`: a new vertex_map per model.
ImportModelSharedMap(acc, mesh) == ImportIndices(acc, mesh, 1)
ImportModel(acc, mesh) == ImportIndices([acc EXCEPT !.vertex_map = <<>>], mesh, 1)

RECURSIVE ImportModels(_, _)
ImportModels(acc, models) ==
  IF models = <<>> THEN acc
  ELSE ImportModels(ImportModel(acc, Head(models)), Tail(models))

obj_to_intermediate(lines) ==
  LET loaded == TobjLoad(lines) IN
  IF ~loaded.ok THEN ObjParse
  ELSE IF loaded.models = <<>> \/ loaded.models[1].indices = <<>> THEN NoMeshData
  ELSE LET acc == ImportModels([vertices |-> <<>>, vertex_map |-> <<>>, corners |-> <<>>],
                               loaded.models)
       IN  MeshV(acc.vertices,
                 [i \in 1..(Len(acc.corners) \div 3) |->
                    <<acc.corners[3 * i - 2], acc.corners[3 * i - 1], acc.corners[3 * i]>>])

ObjToIntermediate ==
  /\ Len(hist) < MaxSteps
  /\ cur.kind = "obj"
  /\ cur' = obj_to_intermediate(cur.lines)
  /\ hist' = Append(hist, "obj_to_intermediate")
  /\ UNCHANGED input

(***************************************************************************)
(* Inputs of the OBJ specification: the meshes above, and OBJ texts of     *)
(* three vertices followed by two objects of up to MaxGroupFaces faces.    *)
(***************************************************************************)
MaxGroupFaces == 2

\* Index 4 names no vertex of the text.
ObjFaceChoices == {<<1, 2, 3>>, <<3, 2, 1>>, <<1, 1, 2>>, <<2, 3, 4>>}

ObjAttributeLines ==
  <<Line("v", <<0, 0, 0>>, <<>>), Line("v", <<1000000, 0, 0>>, <<>>),
    Line("v", <<0, 1000000, 250000>>, <<>>),
    Line("vt", <<0, 0>>, <<>>), Line("vt", <<1000000, 250000>>, <<>>),
    Line("vt", <<500000, 1000000>>, <<>>),
    Line("vn", <<0, 0, 1000000>>, <<>>), Line("vn", <<0, 0, 1000000>>, <<>>),
    Line("vn", <<1000000, 0, 0>>, <<>>)>>

\* "full": corners k/k/k; "mixed": corners k/1/k; "posonly": no vt and vn
\* lines, corners k.
ObjCorner(k, attr) ==
  IF attr = "full" THEN <<k, k, k>>
  ELSE IF attr = "mixed" THEN <<k, 1, k>>
  ELSE <<k, 0, 0>>

ObjGroup(faces, attr) ==
  <<Line("o", <<>>, <<>>)>>
  \o [i \in DOMAIN faces |->
        Line("f", <<>>, <<ObjCorner(faces[i][1], attr), ObjCorner(faces[i][2], attr),
                         ObjCorner(faces[i][3], attr)>>)]

ObjInputs ==
  {ObjV((IF attr = "posonly" THEN SubSeq(ObjAttributeLines, 1, 3) ELSE ObjAttributeLines)
        \o ObjGroup(g1, attr) \o ObjGroup(g2, attr)) :
     attr \in {"full", "mixed", "posonly"},
     g1 \in SeqsUpTo(ObjFaceChoices, MaxGroupFaces),
     g2 \in SeqsUpTo(ObjFaceChoices, MaxGroupFaces)}

InitObj ==
  /\ \/ input \in Meshes
     \/ input \in ObjInputs
  /\ cur = input
  /\ hist = <<>>

NextObj == MeshToObjBytes \/ ObjToIntermediate

SpecObj == InitObj /\ [][NextObj]_vars

Abs(x) == IF x < 0 THEN 0 - x ELSE x

\* Equal up to 6-decimal formatting: within half of 10^-6.
Close(a, b) ==
  /\ \A c \in 1..3 : Abs(a.pos[c] - b.pos[c]) <= 5
  /\ \A c \in 1..3 : Abs(a.normal[c] - b.normal[c]) <= 5
  /\ \A c \in 1..2 : Abs(a.uv[c] - b.uv[c]) <= 5

RoundTripped ==
  /\ input.kind = "mesh"
  /\ hist = <<"mesh_to_obj_bytes", "obj_to_intermediate">>

\* C9 as stated: exporting any mesh and importing the text back gives a mesh
\* with the same vertex count, the same face count and, at every slot, a
\* vertex equal to the original up to 6-decimal formatting.
C9_RoundTripPreservesSlots ==
  RoundTripped
    => /\ cur.kind = "mesh"
       /\ Len(cur.vertices) = Len(input.vertices)
       /\ Len(cur.faces) = Len(input.faces)
       /\ \A k \in DOMAIN input.vertices : Close(cur.vertices[k], input.vertices[k])

\* The distinct values of a sequence in order of first occurrence.
RECURSIVE FirstRefs(_, _)
FirstRefs(s, acc) ==
  IF s = <<>> THEN acc
  ELSE FirstRefs(Tail(s), IF Head(s) \in Range(acc) THEN acc ELSE Append(acc, Head(s)))

InRange(mesh) ==
  \A i \in DOMAIN mesh.faces : \A c \in 1..3 : mesh.faces[i][c] < Len(mesh.vertices)

\* C9 amended: for a mesh with at least one face and all indices in range the
\* round trip succeeds, keeps the face count, returns exactly the vertices
\* some face references, in order of first reference, each equal to the
\* original up to 6-decimal formatting, and every face corner still refers
\* to the same vertex; a mesh without faces fails with NoMeshData.
C9_RoundTripPreservesReferenced ==
  RoundTripped
    => /\ input.faces = <<>> => cur = NoMeshData
       /\ (input.faces # <<>> /\ InRange(input))
            => LET refs == FirstRefs(Flatten(input.faces), <<>>)
               IN  /\ cur.kind = "mesh"
                   /\ Len(cur.faces) = Len(input.faces)
                   /\ Len(cur.vertices) = Len(refs)
                   /\ \A j \in DOMAIN refs :
                        Close(cur.vertices[j], input.vertices[refs[j] + 1])
                   /\ \A i \in DOMAIN input.faces : \A c \in 1..3 :
                        refs[cur.faces[i][c] + 1] = input.faces[i][c]

\* A mesh whose face lists its three vertices in reverse came back with the
\* vertices renumbered and the values rounded to 6 decimals.
C9_Witness ==
  /\ RoundTripped
  /\ cur.kind = "mesh"
  /\ Len(input.vertices) = 3
  /\ input.faces = <<<<2, 1, 0>>>>
  /\ cur.faces = <<<<0, 1, 2>>>>
  /\ input.vertices[3].pos[1] = 15000004
  /\ cur.vertices[1].pos[1] = 15000000

\* The OBJ text the importer was given.
ImportedLines == IF input.kind = "obj" THEN input.lines ELSE mesh_to_obj_bytes(input).lines

\* The face corners of the sub-meshes in input order, as <<sub-mesh, original index>>.
SubMeshCorners(models) ==
  Flatten([m \in DOMAIN models |->
             [j \in DOMAIN models[m].indices |-> <<m, models[m].indices[j]>>]])

Imported ==
  /\ hist # <<>>
  /\ hist[Len(hist)] = "obj_to_intermediate"
  /\ Len(hist) = IF input.kind = "obj" THEN 1 ELSE 2

\* C10: the imported Mesh has as many vertices as the sub-meshes have
\* distinct original indices, summed over the sub-meshes; two face corners
\* share a vertex slot exactly when they are in the same sub-mesh and have
\* the same original index.
C10_DedupPerSubMesh ==
  (Imported /\ cur.kind = "mesh")
    => LET models == TobjLoad(ImportedLines).models
           corners == SubMeshCorners(models)
           slots == Flatten(cur.faces)
       IN  /\ Len(cur.vertices) =
                SumSeq([m \in DOMAIN models |-> Cardinality(Range(models[m].indices))])
           /\ Len(slots) = Len(corners)
           /\ \A a, b \in DOMAIN corners : (slots[a] = slots[b]) <=> (corners[a] = corners[b])

\* Two objects holding the same triangle gave six vertices, the second
\* three copies of the first three.
C10_Witness ==
  /\ Imported
  /\ input.kind = "obj"
  /\ cur.kind = "mesh"
  /\ cur.faces = <<<<0, 1, 2>>, <<3, 4, 5>>>>
  /\ Len(cur.vertices) = 6
  /\ \A k \in 1..3 : cur.vertices[k] = cur.vertices[k + 3]

(***************************************************************************)
(* The ASCII encoder (ser.rs, write_v1). Text is written as the bytes of   *)
(* its characters.                                                         *)
(***************************************************************************)
RECURSIVE DigitsOf(_)
DigitsOf(n) == IF n < 10 THEN <<48 + n>> ELSE Append(DigitsOf(n \div 10), 48 + (n % 10))

\* n written in exactly w digits.
RECURSIVE PadDigits(_, _)
PadDigits(n, w) == IF w = 0 THEN <<>> ELSE Append(PadDigits(n \div 10, w - 1), 48 + (n % 10))

\* {:.6} of an f32: the sign of a negative value is kept even when every
\* printed digit is 0.
Format6(x) ==
  LET t == Fmt6(x)
      mag == IF t < 0 THEN 0 - t ELSE t
  IN  (IF x < 0 THEN <<45>> ELSE <<>>)
      \o DigitsOf(mag \div 1000000) \o <<46>> \o PadDigits(mag % 1000000, 6)

\* "[{:.6},{:.6},{:.6}]"
FormatVector(a, b, c) ==
  <<91>> \o Format6(a) \o <<44>> \o Format6(b) \o <<44>> \o Format6(c) \o <<93>>

V1ScalerQuad(version) == IF version = "V1_00" THEN 4 ELSE 1
V1Scaler(version) == IF version = "V1_00" THEN 2 ELSE 1

V1Header(version) ==
  (IF version = "V1_00" THEN VersionLit(1, 0, 0) ELSE VersionLit(1, 0, 1)) \o <<10>>

\* One face corner: position scaled, normal, then u, v and a literal 0.0.
V1CornerText(vertex, scaler) ==
  FormatVector(vertex.pos[1] * scaler, vertex.pos[2] * scaler, vertex.pos[3] * scaler)
  \o FormatVector(vertex.normal[1], vertex.normal[2], vertex.normal[3])
  \o FormatVector(vertex.uv[1], vertex.uv[2], 0)

\* mesh.vertices[vertex_index as usize] panics on an index out of range.
write_v1(mesh, version) ==
  IF \E i \in DOMAIN mesh.faces : \E c \in 1..3 : mesh.faces[i][c] >= Len(mesh.vertices)
  THEN Panic
  ELSE BytesV(V1Header(version) \o DigitsOf(Len(mesh.faces)) \o <<10>>
              \o Flatten([i \in DOMAIN mesh.faces |->
                   Flatten([c \in 1..3 |->
                     V1CornerText(mesh.vertices[mesh.faces[i][c] + 1], V1Scaler(version))])]))

WriteV1_00 ==
  /\ Len(hist) < MaxSteps
  /\ cur.kind = "mesh"
  /\ cur' = write_v1(cur, "V1_00")
  /\ hist' = Append(hist, "write_v1(V1_00)")
  /\ UNCHANGED input

WriteV1_01 ==
  /\ Len(hist) < MaxSteps
  /\ cur.kind = "mesh"
  /\ cur' = write_v1(cur, "V1_01")
  /\ hist' = Append(hist, "write_v1(V1_01)")
  /\ UNCHANGED input

(***************************************************************************)
(* The binary encoders of v3, v4 and v5 (ser.rs): the header record with   *)
(* one LOD offset declared, the vertices with colour, the faces, then the  *)
(* LOD offset 0.                                                           *)
(***************************************************************************)
WrittenHeader(ver, mesh) ==
  BuildHeader(ver, [hs |-> HeaderSizeOf(ver), stride |-> FILEMESH_VERTEX_SIZE_WITH_RGBA,
                    fstride |-> SizeofFileMeshFace,
                    nv |-> Len(mesh.vertices), nf |-> Len(mesh.faces), nl |-> 1,
                    bones |-> 0, bnames |-> 0, subsets |-> 0, facsf |-> 0, facss |-> 0])

WrittenRecords(mesh) ==
  Flatten([k \in DOMAIN mesh.vertices |-> FileVertexBytes(mesh.vertices[k])])
  \o Flatten([i \in DOMAIN mesh.faces |-> FileFaceBytes(mesh.faces[i])])

write_v3NoLod(mesh) ==
  BytesV(VersionLit(3, 0, 0) \o <<10>> \o WrittenHeader(VersionLit(3, 0, 0), mesh)
         \o WrittenRecords(mesh))

write_v3(mesh) ==
  BytesV(VersionLit(3, 0, 0) \o <<10>> \o WrittenHeader(VersionLit(3, 0, 0), mesh)
         \o WrittenRecords(mesh) \o LE32(0))

write_v4(mesh) ==
  BytesV(VersionLit(4, 0, 0) \o <<10>> \o WrittenHeader(VersionLit(4, 0, 0), mesh)
         \o WrittenRecords(mesh) \o LE32(0))

write_v5(mesh) ==
  BytesV(VersionLit(5, 0, 0) \o <<10>> \o WrittenHeader(VersionLit(5, 0, 0), mesh)
         \o WrittenRecords(mesh) \o LE32(0))

WriteV3 ==
  /\ Len(hist) < MaxSteps
  /\ cur.kind = "mesh"
  /\ cur' = write_v3(cur)
  /\ hist' = Append(hist, "write_v3")
  /\ UNCHANGED input

WriteV4 ==
  /\ Len(hist) < MaxSteps
  /\ cur.kind = "mesh"
  /\ cur' = write_v4(cur)
  /\ hist' = Append(hist, "write_v4")
  /\ UNCHANGED input

WriteV5 ==
  /\ Len(hist) < MaxSteps
  /\ cur.kind = "mesh"
  /\ cur' = write_v5(cur)
  /\ hist' = Append(hist, "write_v5")
  /\ UNCHANGED input

(***************************************************************************)
(* The codec specification: every encoder on a small mesh, then the        *)
(* decoder on what it wrote.                                               *)
(***************************************************************************)
MaxCodecVerts == 2
MaxCodecFaces == 2

CodecFaceChoices == {<<0, 0, 0>>, <<1, 0, 1>>, <<0, 1, 2>>}

CodecMeshes ==
  {MeshV(vs, fs) : vs \in SeqsUpTo(VertexChoices, MaxCodecVerts),
                   fs \in SeqsUpTo(CodecFaceChoices, MaxCodecFaces)}

InitCodec ==
  /\ input \in CodecMeshes
  /\ cur = input
  /\ hist = <<>>

NextCodec ==
  \/ WriteV1_00 \/ WriteV1_01 \/ WriteV2 \/ WriteV3 \/ WriteV4 \/ WriteV5
  \/ ParseFilemesh

SpecCodec == InitCodec /\ [][NextCodec]_vars

\* The bracketed vectors of the data line of an ASCII buffer, as numbers.
V1Vectors(data) ==
  LET l1 == NextLine(BodyOf(data))
      l2 == NextLine(l1.rest)
      vs == parse_bracket_vectors(l2.line)
  IN  IF l2.some /\ vs.ok THEN vs.val ELSE <<>>

\* Vector j of the data line is a position, a normal or a uv in turn.
IsPositionVector(j) == j % 3 = 1

V1_00_Written == hist = <<"write_v1(V1_00)">> /\ cur.kind = "bytes"

\* C11 (as claimed): every position component emitted by write_v1(mesh,
\* V1_00) is 4 times the one emitted by write_v1(mesh, V1_01), normals and
\* UVs being emitted identically.
C11_PositionsScaledBy4 ==
  V1_00_Written =>
    LET a == V1Vectors(cur.bytes)
        b == V1Vectors(write_v1(input, "V1_01").bytes)
    IN  /\ Len(a) = Len(b)
        /\ \A j \in DOMAIN a : \A c \in 1..3 :
             a[j][c] = IF IsPositionVector(j) THEN 4 * b[j][c] ELSE b[j][c]

\* C11 (amended): every position component emitted by write_v1(mesh, V1_00)
\* is the 6-decimal print of twice the mesh value, so twice the component
\* emitted by write_v1(mesh, V1_01) up to one unit of the sixth decimal;
\* normals and UVs are emitted identically.
C11_PositionsScaledBy2 ==
  V1_00_Written =>
    LET a == V1Vectors(cur.bytes)
        b == V1Vectors(write_v1(input, "V1_01").bytes)
    IN  /\ Len(a) = Len(b)
        /\ Len(a) = 9 * Len(input.faces)
        /\ \A j \in DOMAIN a : \A c \in 1..3 :
             IF IsPositionVector(j)
             THEN Abs(a[j][c] - 2 * b[j][c]) <= 10
             ELSE a[j][c] = b[j][c]

\* A corner at position x = 1.0 was written as 2.0 by V1_00.
C11_Witness ==
  /\ V1_00_Written
  /\ Len(input.faces) > 0
  /\ \E j \in DOMAIN V1Vectors(cur.bytes) :
       /\ IsPositionVector(j)
       /\ V1Vectors(cur.bytes)[j][1] = 2 * One
       /\ V1Vectors(write_v1(input, "V1_01").bytes)[j][1] = One

V1RoundTripped ==
  hist \in {<<"write_v1(V1_00)", "parse_filemesh">>, <<"write_v1(V1_01)", "parse_filemesh">>}

\* C20: for every mesh with face indices in range, zero faces included,
\* parse_filemesh(write_v1(mesh, ver)) returns F faces and 3F vertices, vertex
\* 3i+c having the position and normal of the vertex corner c of face i
\* referenced, and V equal to 1 - the original V.
C20_V1RoundTrip ==
  (V1RoundTripped /\ InRange(input)) =>
    /\ cur.kind = "mesh"
    /\ Len(cur.faces) = Len(input.faces)
    /\ Len(cur.vertices) = 3 * Len(input.faces)
    /\ \A i \in DOMAIN input.faces : \A c \in 1..3 :
         LET got == cur.vertices[3 * (i - 1) + c]
             orig == input.vertices[input.faces[i][c] + 1]
         IN  /\ got.pos = orig.pos
             /\ got.normal = orig.normal
             /\ got.uv[2] = One - orig.uv[2]

BinaryWrites == {"write_v2", "write_v3", "write_v4", "write_v5"}
AllWrites == BinaryWrites \cup {"write_v1(V1_00)", "write_v1(V1_01)"}

\* C14: for every Mesh, a face index >= vertices.len() included, and every
\* target version the write function returns a byte buffer.
C14_EncoderNeverFails ==
  (hist # <<>> /\ hist[Len(hist)] \in AllWrites) => cur.kind = "bytes"

BinaryWritten == Len(hist) = 1 /\ hist[1] \in BinaryWrites

\* Record k (from 1) of the vertex block and record i of the face block of a
\* written buffer, read at the offsets the layout gives them.
WrittenVertexAt(data, k) ==
  LET at == HeaderSizeOf(HeaderText(data)) + 40 * (k - 1)
      b == BodyOf(data)
  IN  [pos |-> <<F32(b, at), F32(b, at + 4), F32(b, at + 8)>>,
       normal |-> <<F32(b, at + 12), F32(b, at + 16), F32(b, at + 20)>>,
       uv |-> <<F32(b, at + 24), F32(b, at + 28)>>]

WrittenFaceAt(data, nv, i) ==
  LET at == HeaderSizeOf(HeaderText(data)) + 40 * nv + 12 * (i - 1)
      b == BodyOf(data)
  IN  <<U32(b, at), U32(b, at + 4), U32(b, at + 8)>>

\* C17: a binary encoder writes the 13-byte version line, the header record
\* of its version (12, 16, 24 or 32 bytes) declaring V and F, V vertex
\* records of 40 bytes, F face records of 12 bytes and, for v3, v4 and v5, one
\* LOD offset 0 with 1 as the declared LOD offset count.
C17_BinaryLayout ==
  BinaryWritten =>
    LET data == cur.bytes
        V == Len(input.vertices)
        F == Len(input.faces)
        major == IF hist[1] = "write_v2" THEN 2 ELSE IF hist[1] = "write_v3" THEN 3
                 ELSE IF hist[1] = "write_v4" THEN 4 ELSE 5
        H == IF major = 2 THEN 12 ELSE IF major = 3 THEN 16 ELSE IF major = 4 THEN 24 ELSE 32
        lod == IF major = 2 THEN 0 ELSE 4
    IN  /\ cur.kind = "bytes"
        /\ SubSeq(data, 1, 13) = VersionLit(major, 0, 0) \o <<10>>
        /\ Len(data) = 13 + H + 40 * V + 12 * F + lod
        /\ U16(BodyOf(data), 0) = H
        /\ DeclVerts(data) = V
        /\ DeclFaces(data) = F
        /\ \A k \in 1..V : WrittenVertexAt(data, k) = input.vertices[k]
        /\ \A i \in 1..F : WrittenFaceAt(data, V, i) = input.faces[i]
        /\ major # 2 =>
             /\ DeclLods(data) = 1
             /\ SubSeq(data, Len(data) - 3, Len(data)) = <<0, 0, 0, 0>>

\* write_v3 wrote a mesh of two vertices and two faces in 153 bytes.
C17_Witness ==
  /\ hist = <<"write_v3">>
  /\ Len(input.vertices) = 2
  /\ Len(input.faces) = 2
  /\ cur.kind = "bytes"
  /\ Len(cur.bytes) = 13 + 16 + 80 + 24 + 4

\* C19: for every Mesh, zero vertices or zero faces included, and every
\* binary version, parse_filemesh of the written buffer succeeds with the
\* same vertex count, the same face list and the same positions, normals
\* and U components.
C19_WrittenIsDecodable ==
  (Len(hist) = 2 /\ hist[1] \in BinaryWrites /\ hist[2] = "parse_filemesh") =>
    /\ cur.kind = "mesh"
    /\ Len(cur.vertices) = Len(input.vertices)
    /\ cur.faces = input.faces
    /\ \A k \in DOMAIN input.vertices :
         /\ cur.vertices[k].pos = input.vertices[k].pos
         /\ cur.vertices[k].normal = input.vertices[k].normal
         /\ cur.vertices[k].uv[1] = input.vertices[k].uv[1]

(***************************************************************************)
(* Inputs of the face stride specification: v2 buffers declaring every     *)
(* face stride around 12, with the other header fields, the counts and the *)
(* length varied.                                                          *)
(***************************************************************************)
FaceStrides == {0, 8, 11, 12, 13, 16}

FaceStrideInputs ==
  {VersionLit(2, 0, 0) \o <<10>> \o
     Resize(BuildHeader(VersionLit(2, 0, 0),
                        [hs |-> IF hsok THEN SizeofFileMeshHeaderV2 ELSE 0,
                         stride |-> stride, fstride |-> fstride, nv |-> nv, nf |-> nf])
            \o BuildPayload(nv, stride = FILEMESH_VERTEX_SIZE_WITH_RGBA, nf, FALSE, <<>>),
            delta) :
     hsok \in BOOLEAN, stride \in {36, 40, 44}, fstride \in FaceStrides,
     nv \in 0..MaxVerts, nf \in {0, 1, MaxFaces}, delta \in {0 - 12, 0 - 1, 0, 4}}

InitFaceStride ==
  /\ input \in {BytesV(b) : b \in FaceStrideInputs}
  /\ cur = input
  /\ hist = <<>>

SpecFaceStride == InitFaceStride /\ [][NextDecode]_vars

DeclaresFaceStride(data) ==
  /\ IsVersion(data, {2})
  /\ Len(BodyOf(data)) >= 4

\* C12: a v2 buffer whose declared face-record stride is not 12 fails with
\* RobloxMeshParse, whatever the vertex stride, the counts and the bytes
\* that follow.
C12_FaceStrideChecked ==
  (Decoded /\ DeclaresFaceStride(input.bytes) /\ U8(BodyOf(input.bytes), 3) # 12)
    => cur = parse_err

\* A complete v2 buffer of two vertices with the right header size and a
\* face stride of 13 was rejected.
C12_Witness ==
  /\ Decoded
  /\ DeclaresFaceStride(input.bytes)
  /\ U16(BodyOf(input.bytes), 0) = 12
  /\ U8(BodyOf(input.bytes), 3) = 13
  /\ Len(BodyOf(input.bytes)) >= 12 + 2 * 36
  /\ DeclVerts(input.bytes) = 2
  /\ cur = parse_err

\* C18: parse_filemesh returns a Mesh or a ConversionError for every buffer;
\* it never aborts, v4 buffers declaring 0 vertices included.
C18_DecoderTotal ==
  Decoded => cur.kind \in {"mesh", "err"}

(***************************************************************************)
(* filemesh_to_obj_bytes: the decoder, then the exporter on its Mesh.      *)
(***************************************************************************)
filemesh_to_obj_bytes(data) ==
  UNION {IF r.kind = "mesh" THEN Outcomes(mesh_to_obj_bytes(r)) ELSE {r} :
           r \in Outcomes(parse_filemesh(data))}

FilemeshToObjBytes ==
  /\ Len(hist) < MaxSteps
  /\ cur.kind = "bytes"
  /\ cur' \in filemesh_to_obj_bytes(cur.bytes)
  /\ hist' = Append(hist, "filemesh_to_obj_bytes")
  /\ UNCHANGED input

\* v2 buffers that declare a vertex stride of 44: each vertex record is
\* followed by 4 further bytes.
WideStrideInputs ==
  {VersionLit(2, 0, 0) \o <<10>> \o
     BuildHeader(VersionLit(2, 0, 0),
                 [hs |-> SizeofFileMeshHeaderV2, stride |-> 44,
                  fstride |-> SizeofFileMeshFace, nv |-> nv, nf |-> nf])
     \o Flatten([k \in 1..nv |-> BuildVertex(k, TRUE) \o <<1, 2, 3, 4>>])
     \o Flatten([i \in 1..nf |-> BuildFace(i, nv, FALSE)]) :
     nv \in 1..MaxVerts, nf \in {0, 1, MaxFaces}}

InitToObj ==
  /\ input \in {BytesV(b) : b \in LayoutInputs \cup WideStrideInputs}
  /\ cur = input
  /\ hist = <<>>

NextToObj == FilemeshToObjBytes

SpecToObj == InitToObj /\ [][NextToObj]_vars

\* The vertex stride a binary buffer declares: the header field of v2 and
\* v3, the quotient of the vertex block of v4, the coloured record of v5.
DeclaredStride(data) ==
  IF Major(HeaderText(data)) \in {2, 3} THEN U8(BodyOf(data), 2)
  ELSE VertexStrideOf(data)

\* tu and tv as stored in vertex record k (from 1) of the file.
RawUV(data, k) ==
  LET at == HeaderSizeOf(HeaderText(data)) + DeclaredStride(data) * (k - 1)
  IN  <<F32(BodyOf(data), at + 24), F32(BodyOf(data), at + 28)>>

Converted == hist = <<"filemesh_to_obj_bytes">> /\ cur.kind = "obj"

VtLines(obj) == [k \in 1..(Len(SelectSeq(obj.lines, LAMBDA l : l.tag = "vt"))) |->
                   SelectSeq(obj.lines, LAMBDA l : l.tag = "vt")[k]]

\* C13: for every binary buffer that decodes, filemesh_to_obj_bytes emits
\* for vertex k a vt line whose U and V are the tu and tv stored in vertex
\* record k of the file.
C13_VtIsRawUV ==
  (Converted /\ IsVersion(input.bytes, {2, 3, 4, 5})) =>
    /\ Len(VtLines(cur)) = DeclVerts(input.bytes)
    /\ \A k \in 1..DeclVerts(input.bytes) :
         VtLines(cur)[k].nums = <<Fmt6(RawUV(input.bytes, k)[1]),
                                  Fmt6(RawUV(input.bytes, k)[2])>>

(***************************************************************************)
(* Inputs of the exporter specification: small meshes whose face indices   *)
(* are in range, out of range, or u32::MAX.                                *)
(***************************************************************************)
ExportFaceChoices == {<<0, 0, 0>>, <<1, 0, 1>>, <<0, 1, 2>>, <<U32_MAX, 0, 0>>}

ExportMeshes ==
  {MeshV(vs, fs) : vs \in SeqsUpTo(VertexChoices, MaxCodecVerts),
                   fs \in SeqsUpTo(ExportFaceChoices, MaxCodecFaces)}

InitExport ==
  /\ input \in ExportMeshes
  /\ cur = input
  /\ hist = <<>>

NextExport == MeshToObjBytes

SpecExport == InitExport /\ [][NextExport]_vars

\* The two 16-bit halves of a 32-bit pattern, and "n is k + 1" on the
\* unsigned values they denote (n itself a u32).
HighHalf(k) == (k \div 65536) % 65536
LowHalf(k) == k % 65536
IsSuccessor(n, k) ==
  \/ LowHalf(k) < 65535 /\ LowHalf(n) = LowHalf(k) + 1 /\ HighHalf(n) = HighHalf(k)
  \/ LowHalf(k) = 65535 /\ LowHalf(n) = 0 /\ HighHalf(n) = HighHalf(k) + 1

Exported == hist = <<"mesh_to_obj_bytes">>

\* C15: the exporter writes all v lines, then all vt lines, then all vn
\* lines, then all f lines; a face corner holding index k, any u32, is
\* written as k+1 for position, uv and normal alike, and the (k+1)-th v, vt
\* and vn lines carry vertex k's position, UV (V flipped) and normal.
C15_ExporterIndices ==
  Exported =>
    /\ cur.kind = "obj"
    /\ LET V == Len(input.vertices)
           F == Len(input.faces)
           L == cur.lines
       IN  /\ Len(L) = 3 * V + F
           /\ \A j \in 1..V : L[j].tag = "v" /\ L[V + j].tag = "vt" /\ L[2 * V + j].tag = "vn"
           /\ \A i \in 1..F : L[3 * V + i].tag = "f"
           /\ \A i \in 1..F : \A c \in 1..3 :
                LET k == input.faces[i][c]
                    n == L[3 * V + i].corners[c][1]
                IN  /\ L[3 * V + i].corners[c] = <<n, n, n>>
                    /\ IsSuccessor(n, k)
                    /\ n \in 1..V
                    /\ L[n].nums = <<Fmt6(input.vertices[n].pos[1]),
                                     Fmt6(input.vertices[n].pos[2]),
                                     Fmt6(input.vertices[n].pos[3])>>
                    /\ L[V + n].nums = <<Fmt6(input.vertices[n].uv[1]),
                                         Fmt6(One - input.vertices[n].uv[2])>>
                    /\ L[2 * V + n].nums = <<Fmt6(input.vertices[n].normal[1]),
                                             Fmt6(input.vertices[n].normal[2]),
                                             Fmt6(input.vertices[n].normal[3])>>

(***************************************************************************)
(* Inputs of the ASCII decoder specification: a v1 version line, a face    *)
(* count line and a data line of bracketed vectors, well formed or not.    *)
(***************************************************************************)
MaxV1Faces == 2

DigitChars(ds) == [i \in DOMAIN ds |-> 48 + ds[i]]

\* Face counts of 10^9 or more: 9 * count is 5 * 2^64 + 1 for the first,
\* 2^64 + 2 for the second, 2^64 - 7 for the third; the fourth is 2^64.
BigCounts ==
  {<<1, 0, 2, 4, 8, 1, 9, 1, 1, 5, 2, 0, 6, 0, 8, 6, 2, 0, 0, 9>>,
   <<2, 0, 4, 9, 6, 3, 8, 2, 3, 0, 4, 1, 2, 1, 7, 2, 4, 0, 2>>,
   <<2, 0, 4, 9, 6, 3, 8, 2, 3, 0, 4, 1, 2, 1, 7, 2, 4, 0, 1>>,
   MulAdd(UsizeMax, 1, 1)}

CountTexts ==
  {DigitsOf(n) : n \in 0..MaxV1Faces}
  \cup {<<43>> \o DigitsOf(1), <<48>> \o DigitsOf(1), <<32>> \o DigitsOf(1) \o <<32>>}
  \cup {<<>>, <<120>>, <<45, 49>>, <<49, 46, 48>>}
  \cup {DigitChars(ds) : ds \in BigCounts}

VectorText(k, spaced) ==
  IF spaced
  THEN <<91, 32>> \o Format6(k * One + 5000000) \o <<32, 44>> \o Format6(0 - 2500000)
       \o <<44, 32>> \o Format6(3 * One) \o <<93, 32>>
  ELSE FormatVector(k * One + 5000000, 0 - 2500000, 3 * One)

VectorCounts ==
  {0, 1, 2} \cup {9 * f + d : f \in 1..MaxV1Faces, d \in {0 - 1, 0, 1}}

\* n vectors; "unclosed" drops the last ']', "short" appends a vector of two
\* components, "empty" appends "[]".
DataLine(n, shape) ==
  LET text == Flatten([k \in 1..n |-> VectorText(k, shape = "spaced")])
  IN  IF shape = "unclosed" THEN <<91, 49, 44, 50, 44, 51>> \o text
      ELSE IF shape = "short" THEN text \o <<91, 49, 44, 50, 93>>
      ELSE IF shape = "empty" THEN text \o <<91, 93>>
      ELSE text

DataLines ==
  {DataLine(n, shape) : n \in VectorCounts,
                        shape \in {"plain", "spaced", "unclosed", "short", "empty"}}

AsciiInputs ==
  {ver \o eol \o count \o eol \o line : ver \in {VersionLit(1, 0, 0), VersionLit(1, 0, 1)},
     eol \in {<<10>>, <<13, 10>>}, count \in CountTexts, line \in DataLines}
  \cup {ver \o <<10>> \o count \o tail : ver \in {VersionLit(1, 0, 0), VersionLit(1, 0, 1)},
          count \in CountTexts, tail \in {<<>>, <<10>>, <<10, 10>>}}

InitAsciiDecode ==
  /\ input \in {BytesV(b) : b \in AsciiInputs}
  /\ cur = input
  /\ hist = <<>>

SpecAsciiDecode == InitAsciiDecode /\ [][NextDecode]_vars

\* The face count line and the data line of a v1 buffer, as the text shows
\* them: the count as decimal digits without leading zeros, the number of
\* opening brackets on the second line.
CountLine(data) == trim(NextLine(BodyOf(data)).line)
DeclaresCount(data) ==
  /\ NextLine(BodyOf(data)).some
  /\ ParseUsize(CountLine(data)).ok
DeclaredCount(data) == ParseUsize(CountLine(data)).digits
BracketCount(data) ==
  LET l2 == NextLine(NextLine(BodyOf(data)).rest).line
  IN  Cardinality({i \in DOMAIN l2 : l2[i] = 91})

\* C16: a v1 decode that succeeds with declared face count F returns F
\* faces and 3F vertices, face i being [3i, 3i+1, 3i+2]; the decode fails
\* with RobloxMeshParse whenever the number of bracketed vectors on the data
\* line differs from 9*F.
C16_V1Shape ==
  (Decoded /\ DeclaresCount(input.bytes)) =>
    /\ cur.kind = "mesh" =>
         /\ MulAdd(<<>>, 1, Len(cur.faces)) = DeclaredCount(input.bytes)
         /\ Len(cur.vertices) = 3 * Len(cur.faces)
         /\ \A i \in DOMAIN cur.faces :
              cur.faces[i] = <<3 * (i - 1), 3 * (i - 1) + 1, 3 * (i - 1) + 2>>
    /\ MulAdd(<<>>, 1, BracketCount(input.bytes)) # MulAdd(DeclaredCount(input.bytes), 9, 0)
         => cur = parse_err

\* The place (from 1) of x in a sequence that holds it.
PlaceIn(seq, x) == CHOOSE i \in DOMAIN seq : seq[i] = x

\* C21: in every Mesh obj_to_intermediate returns, each index of each face
\* is below the number of vertices, every vertex slot is referenced by some
\* face, and the slots are numbered in order of first reference, the
\* sub-meshes taken in input order.
C21_ImportedMeshInvariant ==
  (Imported /\ cur.kind = "mesh")
    => LET V == Len(cur.vertices)
           slots == Flatten(cur.faces)
           corners == SubMeshCorners(TobjLoad(ImportedLines).models)
           order == FirstRefs(corners, <<>>)
       IN  /\ \A a \in DOMAIN slots : slots[a] \in 0..(V - 1)
           /\ \A k \in 0..(V - 1) : \E a \in DOMAIN slots : slots[a] = k
           /\ FirstRefs(slots, <<>>) = [k \in 1..V |-> k - 1]
           /\ Len(slots) = Len(corners)
           /\ \A a \in DOMAIN slots : slots[a] = PlaceIn(order, corners[a]) - 1

\* Two objects, the first naming its three vertices twice in different
\* orders, the second one vertex twice: five slots in order of first
\* reference.
C21_Witness ==
  /\ Imported
  /\ input.kind = "obj"
  /\ cur.kind = "mesh"
  /\ cur.faces = <<<<0, 1, 2>>, <<2, 1, 0>>, <<3, 3, 4>>>>
  /\ Len(cur.vertices) = 5
====
